---- MODULE Spec2Model ----
(***************************************************************************)
(* CacheState of crates/revm/src/db/states/cache.rs: the account cache,    *)
(* the contract store, the state-clear flag, the loader operations and     *)
(* apply_evm_state / apply_account_state; the SuffixHasher of its maps;    *)
(* and two threads inside apply_account_state on one shared cache.         *)
(*                                                                         *)
(* Option<T> is a sequence of length <= 1: <<>> is None, <<x>> is Some(x). *)
(* A map (DashMap, HashMap) is a function whose DOMAIN is its key set.     *)
(* The lifecycle operations of CacheAccount (cache_account.rs) and the     *)
(* predicates of the primitives crate are not part of cache.rs; they are   *)
(* modelled from the specification and are marked so in the model map.     *)
(***************************************************************************)
EXTENDS Integers, Sequences, FiniteSets, TLC

\* ------------------------------------------------------------------ values

None == <<>>
Some(x) == <<x>>
IsSome(o) == o # <<>>
Unwrap(o) == o[1]

EmptyMap == <<>>

\* Address keys of `accounts` and of an EvmState.
Addresses == {"a1", "a2"}
OneAddress == {"a1"}

\* The reserved hash of empty bytecode. The one hash of real bytecode is "h1",
\* carried with either of two bytecode blobs, "c1" and "c2"; slot keys are 1, 2.
KECCAK_EMPTY == "KECCAK_EMPTY"

AccountInfo(balance, nonce, code_hash, code) ==
    [balance |-> balance, nonce |-> nonce, code_hash |-> code_hash, code |-> code]

\* AccountInfo::default(): the empty account.
DefaultInfo == AccountInfo(0, 0, KECCAK_EMPTY, None)

\* AccountInfo::is_empty: zero balance, zero nonce, no code.
InfoIsEmpty(info) ==
    info.balance = 0 /\ info.nonce = 0 /\ info.code_hash = KECCAK_EMPTY

\* AccountInfo::has_no_code_and_nonce.
HasNoCodeAndNonce(info) ==
    info.nonce = 0 /\ info.code_hash = KECCAK_EMPTY

\* ------------------------------------------------- execution-result account

\* revm's Account: status flags, info snapshot, storage of EvmStorageSlot.
EvmAccount(touched, created, selfdestructed, info, storage) ==
    [touched |-> touched, created |-> created, selfdestructed |-> selfdestructed,
     info |-> info, storage |-> storage]

EvmSlot(original_value, present_value) ==
    [original_value |-> original_value, present_value |-> present_value]

is_touched(account) == account.touched
is_created(account) == account.created
is_selfdestructed(account) == account.selfdestructed
is_empty(account) == InfoIsEmpty(account.info)

\* EvmStorageSlot::is_changed: previous value differs from current value.
is_changed(slot) == slot.original_value # slot.present_value

\* From<EvmStorageSlot> for StorageSlot: (previous value, new value).
SlotInto(slot) ==
    [previous_or_original_value |-> slot.original_value,
     present_value |-> slot.present_value]

\* ----------------------------------------------------------- cache account

PlainAccount(info, storage) == [info |-> info, storage |-> storage]

CacheAccount(status, account) == [status |-> status, account |-> account]

new_loaded_not_existing == CacheAccount("LoadedNotExisting", None)
new_loaded(info, storage) == CacheAccount("Loaded", Some(PlainAccount(info, storage)))
new_loaded_empty_eip161(storage) ==
    CacheAccount("LoadedEmptyEIP161", Some(PlainAccount(DefaultInfo, storage)))

TransitionAccount(info, status, previous_info, previous_status, storage, destroyed) ==
    [info |-> info, status |-> status, previous_info |-> previous_info,
     previous_status |-> previous_status, storage |-> storage,
     storage_was_destroyed |-> destroyed]

\* Result of a lifecycle operation: the entry it leaves and what it returns.
Applied(entry, transition) == [entry |-> entry, transition |-> transition]

PreviousInfo(entry) ==
    IF IsSome(entry.account) THEN Some(Unwrap(entry.account).info) ELSE None

\* The current values of a changed-storage delta.
PresentValues(storage) == [k \in DOMAIN storage |-> storage[k].present_value]

\* HashMap::extend: the entries of `upd` replace or add to those of `base`.
Extend(base, upd) ==
    [k \in DOMAIN base \cup DOMAIN upd |-> IF k \in DOMAIN upd THEN upd[k] ELSE base[k]]

on_selfdestructed(status) ==
    CASE status = "LoadedNotExisting" -> "LoadedNotExisting"
      [] status \in {"DestroyedChanged", "DestroyedAgain", "Destroyed"} -> "DestroyedAgain"
      [] OTHER -> "Destroyed"

\* Self-destruct: the account is dropped; a non-existing account yields no record.
selfdestruct(entry) ==
    LET status == on_selfdestructed(entry.status) IN
    Applied(CacheAccount(status, None),
            IF entry.status = "LoadedNotExisting" THEN None
            ELSE Some(TransitionAccount(None, status, PreviousInfo(entry),
                                        entry.status, EmptyMap, TRUE)))

\* Mutant: a destroyed entry keeps its status when it is created again.
on_created_stays_destroyed(status) ==
    IF status \in {"DestroyedAgain", "Destroyed", "DestroyedChanged"}
    THEN status ELSE "InMemoryChange"

on_created(status) ==
    IF status \in {"DestroyedAgain", "Destroyed", "DestroyedChanged"}
    THEN "DestroyedChanged" ELSE "InMemoryChange"

\* Newly created: returns a record (no Option); the account is replaced by the
\* fresh one.
newly_created(entry, new_info, new_storage) ==
    LET status == on_created(entry.status) IN
    Applied(CacheAccount(status, Some(PlainAccount(new_info, PresentValues(new_storage)))),
            TransitionAccount(Some(new_info), status, PreviousInfo(entry),
                              entry.status, new_storage, FALSE))

on_touched_empty_post_eip161(status) ==
    CASE status = "LoadedNotExisting" -> "LoadedNotExisting"
      [] status \in {"DestroyedAgain", "DestroyedChanged"} -> "DestroyedAgain"
      [] OTHER -> "Destroyed"

\* Touch as empty under state clear: the account is removed; nothing is
\* recorded when it was already recorded as non-existing.
touch_empty_eip161(entry) ==
    LET status == on_touched_empty_post_eip161(entry.status) IN
    Applied(CacheAccount(status, None),
            IF entry.status \in {"LoadedNotExisting", "Destroyed", "DestroyedAgain"}
            THEN None
            ELSE Some(TransitionAccount(None, status, PreviousInfo(entry),
                                        entry.status, EmptyMap, TRUE)))

\* None: the touch changes nothing (the empty account is already kept).
on_touched_created_pre_eip161(status, had_no_info) ==
    CASE status = "LoadedEmptyEIP161" -> None
      [] status = "DestroyedChanged" ->
            IF had_no_info THEN None ELSE Some("DestroyedChanged")
      [] status \in {"Destroyed", "DestroyedAgain"} -> Some("DestroyedChanged")
      [] status \in {"InMemoryChange", "LoadedNotExisting"} -> Some("InMemoryChange")
      [] OTHER -> Some("Changed")

\* Touch before state clear: the empty account is kept, with the changed slots.
touch_create_pre_eip161(entry, storage) ==
    LET had_no_info == IF IsSome(entry.account)
                       THEN InfoIsEmpty(Unwrap(entry.account).info) ELSE FALSE
        status == on_touched_created_pre_eip161(entry.status, had_no_info)
    IN  IF status = None THEN Applied(entry, None)
        ELSE Applied(CacheAccount(Unwrap(status),
                                  Some(PlainAccount(DefaultInfo, PresentValues(storage)))),
                     Some(TransitionAccount(Some(DefaultInfo), Unwrap(status),
                                            PreviousInfo(entry), entry.status,
                                            storage, FALSE)))

on_changed(status, had_no_nonce_and_code) ==
    CASE status \in {"LoadedNotExisting", "LoadedEmptyEIP161", "InMemoryChange"} -> "InMemoryChange"
      [] status = "Loaded" -> IF had_no_nonce_and_code THEN "InMemoryChange" ELSE "Changed"
      [] status = "Changed" -> "Changed"
      [] OTHER -> "DestroyedChanged"

\* Apply change: returns a record (no Option); the changed slots are merged
\* into the storage.
change(entry, new, storage) ==
    LET had_no_nonce_and_code ==
            IF IsSome(entry.account)
            THEN HasNoCodeAndNonce(Unwrap(entry.account).info) ELSE FALSE
        this_storage == IF IsSome(entry.account)
                        THEN Unwrap(entry.account).storage ELSE EmptyMap
        status == on_changed(entry.status, had_no_nonce_and_code)
    IN  Applied(CacheAccount(status,
                             Some(PlainAccount(new, Extend(this_storage, PresentValues(storage))))),
                TransitionAccount(Some(new), status, PreviousInfo(entry),
                                  entry.status, storage, FALSE))

\* ----------------------------------------------------------- SuffixHasher

\* Lines 14-25.  A u64 does not fit the integers of the checker, so it is the
\* sequence of its four 16-bit words, most significant first.
ZeroU64 == <<0, 0, 0, 0>>

\* Line 22: u64::from_be_bytes of eight bytes, the first byte the most significant.
from_be_bytes(suffix) == [i \in 1..4 |-> suffix[2 * i - 1] * 256 + suffix[2 * i]]

\* Line 20: bytes[bytes.len() - 8..], which needs at least eight bytes.
Suffix_prefix(bytes) == SubSeq(bytes, 1, 8)
Suffix(bytes) == SubSeq(bytes, Len(bytes) - 8 + 1, Len(bytes))

\* Line 20: the slice start underflows (debug build) or lies past the end of the
\* slice (release build); both builds panic.
SuffixPanics(bytes) == Len(bytes) < 8

\* Longest key written and number of writes into one hasher.
MaxKeyLen == 9
MaxWrites == 2

HashBytes == {0, 255}
RECURSIVE KeysOfLen(_)
KeysOfLen(n) ==
    IF n = 0 THEN {<<>>}
    ELSE {Append(k, b) : k \in KeysOfLen(n - 1), b \in HashBytes}
HashKeys == UNION {KeysOfLen(n) : n \in 0..MaxKeyLen}

VARIABLES
    hasher,           \* SuffixHasher(u64): the field self.0
    hasher_panicked,  \* the last write panicked
    written,          \* the bytes of the last write, or None
    writes            \* the number of writes into this hasher

hasher_vars == <<hasher, hasher_panicked, written, writes>>

\* Line 13: #[derive(Default)] on SuffixHasher(u64).
hasher_default ==
    /\ hasher = ZeroU64
    /\ hasher_panicked = FALSE
    /\ written = None
    /\ writes = 0

\* Lines 15-17
finish == hasher

\* ------------------------------------------------------------- CacheState

VARIABLES
    accounts,         \* CacheState::accounts: address -> CacheAccount
    contracts,        \* CacheState::contracts: code hash -> bytecode
    has_state_clear,  \* CacheState::has_state_clear
    outcome,          \* "idle", or how the last apply_evm_state ended: "returned" / "panicked"
    evm_state,        \* argument of the last apply_evm_state, in its iteration order
    transitions,      \* the list the last apply_evm_state returned
    calls,            \* the lifecycle operations it invoked: <<address, operation>>
    before,           \* accounts, contracts and flag when it was called
    empty_touches,    \* address -> number of consecutive touches as empty under state
                      \* clear since insert_account gave it an empty info
    loader_call,      \* the loader or setter call that just completed, or None
    inserted,         \* the addresses the loader has inserted
    workers           \* the threads inside apply_account_state on this cache

cache_vars == <<accounts, contracts, has_state_clear, outcome, evm_state, transitions,
                calls, empty_touches, loader_call, inserted>>

vars == <<cache_vars, before, workers, hasher_vars>>

\* Map insert (DashMap::insert, HashMap::insert): replaces an existing entry.
Insert(map, key, value) ==
    [k \in DOMAIN map \cup {key} |-> IF k = key THEN value ELSE map[k]]

\* The state an application works on and what it has produced so far.
Progress(accs, ctrs, trans, cls, panic) ==
    [accounts |-> accs, contracts |-> ctrs, transitions |-> trans,
     calls |-> cls, panic |-> panic]

\* Outcome of apply_account_state for one address.
Outcome(accs, ctrs, transition, call, panic) ==
    [accounts |-> accs, contracts |-> ctrs, transition |-> transition,
     call |-> call, panic |-> panic]

\* Mutant: the touch filter is missing.
NotTouched_never(account) == FALSE

\* Line 125: accounts that are not touched are skipped before the cache is read.
NotTouched(account) == ~is_touched(account)

\* Mutant: a missing entry is replaced by a default one instead of panicking.
FetchEntry_or_default(accs, address) ==
    IF address \in DOMAIN accs THEN Some(accs[address]) ELSE Some(new_loaded_not_existing)

\* Lines 129-132: get_mut(..).expect(..): the entry, or None where expect panics.
FetchEntry(accs, address) ==
    IF address \in DOMAIN accs THEN Some(accs[address]) ELSE None

\* Mutant: the is_changed filter is missing.
ChangedStorage_all(storage) == [k \in DOMAIN storage |-> SlotInto(storage[k])]

\* Lines 144-149: only the changed slots, each as (previous, present).
ChangedStorage(storage) ==
    [k \in {s \in DOMAIN storage : is_changed(storage[s])} |-> SlotInto(storage[k])]

\* Mutant: insert instead of entry().or_insert_with(): the last writer wins.
RegisterContract_overwrite(ctrs, info) ==
    IF info.code = None THEN [contracts |-> ctrs, panic |-> info.code_hash \notin DOMAIN ctrs]
    ELSE [contracts |-> Insert(ctrs, info.code_hash, Unwrap(info.code)), panic |-> FALSE]

\* Lines 160-162: entry(code_hash).or_insert_with(|| code.clone().unwrap()).
\* The closure runs, and unwrap can panic, only when the hash is vacant.
RegisterContract(ctrs, info) ==
    IF info.code_hash \in DOMAIN ctrs THEN [contracts |-> ctrs, panic |-> FALSE]
    ELSE IF info.code = None THEN [contracts |-> ctrs, panic |-> TRUE]
    ELSE [contracts |-> Insert(ctrs, info.code_hash, Unwrap(info.code)), panic |-> FALSE]

\* Mutant: is_created is checked before is_selfdestructed.
Branch_created_first(account, state_clear) ==
    IF is_created(account) THEN "newly_created"
    ELSE IF is_selfdestructed(account) THEN "selfdestruct"
    ELSE IF is_empty(account)
         THEN IF state_clear THEN "touch_empty_eip161" ELSE "touch_create_pre_eip161"
         ELSE "change"

\* Mutant: the state-clear flag is read inverted.
Branch_flag_inverted(account, state_clear) ==
    IF is_selfdestructed(account) THEN "selfdestruct"
    ELSE IF is_created(account) THEN "newly_created"
    ELSE IF is_empty(account)
         THEN IF ~state_clear THEN "touch_empty_eip161" ELSE "touch_create_pre_eip161"
         ELSE "change"

\* Lines 136-181: which lifecycle operation a touched account is handed to.
Branch(account, state_clear) ==
    IF is_selfdestructed(account) THEN "selfdestruct"
    ELSE IF is_created(account) THEN "newly_created"
    ELSE IF is_empty(account)
         THEN IF state_clear THEN "touch_empty_eip161" ELSE "touch_create_pre_eip161"
         ELSE "change"

\* Mutant: the change branch returns nothing when the record shows no change.
Delegate_skip_unchanged(branch, entry, account, changed_storage) ==
    CASE branch = "selfdestruct" -> selfdestruct(entry)
      [] branch = "newly_created" ->
            LET r == newly_created(entry, account.info, changed_storage)
            IN  Applied(r.entry, Some(r.transition))
      [] branch = "touch_empty_eip161" -> touch_empty_eip161(entry)
      [] branch = "touch_create_pre_eip161" -> touch_create_pre_eip161(entry, changed_storage)
      [] OTHER ->
            LET r == change(entry, account.info, changed_storage)
            IN  Applied(r.entry,
                        IF r.transition.info = r.transition.previous_info
                           /\ r.transition.storage = EmptyMap
                        THEN None ELSE Some(r.transition))

\* Lines 137, 163, 173, 177, 180: the lifecycle operation `branch` on `entry`
\* with the arguments the code passes; the entry it leaves and the Option the
\* code returns (newly_created and change are wrapped in Some).
Delegate(branch, entry, account, changed_storage) ==
    CASE branch = "selfdestruct" -> selfdestruct(entry)
      [] branch = "newly_created" ->
            LET r == newly_created(entry, account.info, changed_storage)
            IN  Applied(r.entry, Some(r.transition))
      [] branch = "touch_empty_eip161" -> touch_empty_eip161(entry)
      [] branch = "touch_create_pre_eip161" -> touch_create_pre_eip161(entry, changed_storage)
      [] OTHER ->
            LET r == change(entry, account.info, changed_storage)
            IN  Applied(r.entry, Some(r.transition))

\* Lines 123-182.
apply_account_state(accs, ctrs, state_clear, address, account) ==
    IF NotTouched(account) THEN Outcome(accs, ctrs, None, None, FALSE)
    ELSE
    LET this_account == FetchEntry(accs, address) IN
    IF this_account = None THEN Outcome(accs, ctrs, None, None, TRUE)
    ELSE
    LET branch == Branch(account, state_clear)
        changed_storage == ChangedStorage(account.storage)
        reg == IF branch = "newly_created" THEN RegisterContract(ctrs, account.info)
               ELSE [contracts |-> ctrs, panic |-> FALSE]
    IN  IF reg.panic THEN Outcome(accs, ctrs, None, None, TRUE)
        ELSE LET r == Delegate(branch, Unwrap(this_account), account, changed_storage)
             IN  Outcome(Insert(accs, address, r.entry), reg.contracts,
                         r.transition, Some(branch), FALSE)

\* Mutant: the record is put in front of the list.
Push_front(trans, address, transition) ==
    IF IsSome(transition) THEN <<(<<address, Unwrap(transition)>>)>> \o trans ELSE trans

\* Lines 114-116: transitions.push((address, transition)) when there is one.
Push(trans, address, transition) ==
    IF IsSome(transition) THEN Append(trans, <<address, Unwrap(transition)>>) ELSE trans

\* Lines 111-119: the loop over evm_state from item i on; a panic ends it.
RECURSIVE ApplyFrom(_, _, _, _)
ApplyFrom(p, state_clear, batch, i) ==
    IF i > Len(batch) \/ p.panic THEN p
    ELSE LET address == batch[i][1]
             r == apply_account_state(p.accounts, p.contracts, state_clear,
                                      address, batch[i][2])
         IN  ApplyFrom(Progress(r.accounts, r.contracts,
                                Push(p.transitions, address, r.transition),
                                IF IsSome(r.call)
                                THEN Append(p.calls, <<address, Unwrap(r.call)>>)
                                ELSE p.calls,
                                r.panic),
                       state_clear, batch, i + 1)

\* ------------------------------------------------------------------ inputs

\* Account infos the loader and the interpreter supply: the empty account, with
\* no code inlined or with the empty bytecode "c0", a funded one, and contracts
\* under one hash with either bytecode inlined or none.
Infos ==
    {DefaultInfo,
     AccountInfo(0, 0, KECCAK_EMPTY, Some("c0")),
     AccountInfo(1, 0, KECCAK_EMPTY, None),
     AccountInfo(0, 1, "h1", Some("c1")),
     AccountInfo(0, 1, "h1", Some("c2")),
     AccountInfo(0, 1, "h1", None)}

\* Execution-result storages: none, one changed slot, one unchanged slot, an
\* unchanged slot with a changed one.
EvmStorages ==
    {EmptyMap,
     (1 :> EvmSlot(0, 1)),
     (1 :> EvmSlot(1, 1)),
     (1 :> EvmSlot(1, 1)) @@ (2 :> EvmSlot(0, 2))}

\* Storage snapshots the loader supplies.
PlainStorages == {(1 :> 5)}

\* The infos and storages of the batches that span several addresses.
BatchInfos ==
    {AccountInfo(0, 1, "h1", Some("c1")),
     AccountInfo(0, 1, "h1", Some("c2"))}
BatchStorages == {EmptyMap}
BatchPlainStorages == {EmptyMap}

\* Status flags <<touched, created, selfdestructed>>: every combination, and
\* for the batches over several addresses one untouched and every touched one.
Flags == BOOLEAN \X BOOLEAN \X BOOLEAN
BatchFlags == {f \in Flags : f[1] \/ (~f[2] /\ ~f[3])}

EvmAccounts(flags, infos, storages) ==
    {EvmAccount(f[1], f[2], f[3], info, storage) :
        f \in flags, info \in infos, storage \in storages}

\* The iteration orders of the maps keyed by a subset of `addrs`.
Orders(addrs) ==
    {o \in UNION {[1..n -> addrs] : n \in 0..Cardinality(addrs)} :
        \A i, j \in DOMAIN o : o[i] = o[j] => i = j}

\* EvmState (a map address -> account) as the sequence of its entries in
\* iteration order: distinct addresses, each with its account.
EvmStates(addrs, accts) ==
    UNION {{[i \in DOMAIN o |-> <<o[i], f[i]>>] : f \in [DOMAIN o -> accts]} :
            o \in Orders(addrs)}

NoCall == [accounts |-> EmptyMap, contracts |-> EmptyMap, has_state_clear |-> FALSE]

\* Longest run of identical empty touches that is counted (the count saturates).
MaxRepeat == 3

\* The addresses of a batch, and the account a batch holds for an address.
Keys(batch) == {batch[i][1] : i \in DOMAIN batch}
AccountOf(batch, a) == batch[CHOOSE i \in DOMAIN batch : batch[i][1] = a][2]

\* Touched as empty and nothing else: not created, not self-destructed, no
\* changed slot.
TouchedEmptyOnly(account) ==
    /\ is_touched(account) /\ ~is_created(account) /\ ~is_selfdestructed(account)
    /\ is_empty(account)
    /\ ChangedStorage(account.storage) = EmptyMap

Remove(map, key) == [k \in DOMAIN map \ {key} |-> map[k]]

\* The runs that a batch applied under `state_clear` continues: a touch as
\* empty under state clear adds one, any other touch ends the run.
CountTouches(runs, state_clear, batch) ==
    [a \in {x \in DOMAIN runs :
                x \in Keys(batch) /\ is_touched(AccountOf(batch, x))
                    => state_clear /\ TouchedEmptyOnly(AccountOf(batch, x))}
        |-> IF a \in Keys(batch) /\ is_touched(AccountOf(batch, a))
            THEN IF runs[a] < MaxRepeat THEN runs[a] + 1 ELSE MaxRepeat
            ELSE runs[a]]

\* ----------------------------------------------------------------- actions

\* Lines 54-60: CacheState::new(has_state_clear); Default is new(true).
new(flag) ==
    /\ accounts = EmptyMap
    /\ contracts = EmptyMap
    /\ has_state_clear = flag
    /\ outcome = "idle"
    /\ evm_state = <<>>
    /\ transitions = <<>>
    /\ calls = <<>>
    /\ before = NoCall
    /\ empty_touches = EmptyMap
    /\ loader_call = None
    /\ inserted = {}
    /\ workers = <<>>
    /\ hasher_default

\* No result of a call is pending.
Idle ==
    /\ outcome' = "idle"
    /\ evm_state' = <<>>
    /\ transitions' = <<>>
    /\ calls' = <<>>
    /\ before' = NoCall
    /\ loader_call' = None
    /\ UNCHANGED <<workers, hasher_vars>>

\* A loader or setter call has completed: the call and the state it was made in.
Completed(call) ==
    /\ outcome' = "completed"
    /\ loader_call' = Some(call)
    /\ before' = [accounts |-> accounts, contracts |-> contracts,
                  has_state_clear |-> has_state_clear]
    /\ evm_state' = <<>>
    /\ transitions' = <<>>
    /\ calls' = <<>>
    /\ UNCHANGED <<workers, hasher_vars>>

\* Lines 63-65.
set_state_clear_flag(flag) ==
    /\ outcome # "panicked"
    /\ has_state_clear' = flag
    /\ UNCHANGED <<accounts, contracts, empty_touches, inserted>>
    /\ Completed(<<"set_state_clear_flag", flag>>)

\* Lines 80-83.
insert_not_existing(address) ==
    /\ outcome # "panicked"
    /\ accounts' = Insert(accounts, address, new_loaded_not_existing)
    /\ empty_touches' = Remove(empty_touches, address)
    /\ inserted' = inserted \cup {address}
    /\ UNCHANGED <<contracts, has_state_clear>>
    /\ Completed(<<"insert_not_existing", address>>)

\* Lines 102-107: Loaded, or LoadedEmptyEIP161 when the info is empty.
InsertedAccount_inverted(info, storage) ==
    IF InfoIsEmpty(info) THEN new_loaded(info, storage)
    ELSE new_loaded_empty_eip161(storage)
InsertedAccount(info, storage) ==
    IF ~InfoIsEmpty(info) THEN new_loaded(info, storage)
    ELSE new_loaded_empty_eip161(storage)

\* Lines 86-93.
insert_account(address, info) ==
    /\ outcome # "panicked"
    /\ accounts' = Insert(accounts, address, InsertedAccount(info, EmptyMap))
    /\ empty_touches' = IF InfoIsEmpty(info) THEN Insert(empty_touches, address, 0)
                        ELSE Remove(empty_touches, address)
    /\ inserted' = inserted \cup {address}
    /\ UNCHANGED <<contracts, has_state_clear>>
    /\ Completed(<<"insert_account", address, info>>)

\* Lines 96-108.
insert_account_with_storage(address, info, storage) ==
    /\ outcome # "panicked"
    /\ accounts' = Insert(accounts, address, InsertedAccount(info, storage))
    /\ empty_touches' = Remove(empty_touches, address)
    /\ inserted' = inserted \cup {address}
    /\ UNCHANGED <<contracts, has_state_clear>>
    /\ Completed(<<"insert_account_with_storage", address, info, storage>>)

\* Lines 111-119: the whole call; a panic returns no list.
apply_evm_state(batch) ==
    /\ outcome = "idle"
    /\ LET p == ApplyFrom(Progress(accounts, contracts, <<>>, <<>>, FALSE),
                          has_state_clear, batch, 1)
       IN  /\ accounts' = p.accounts
           /\ contracts' = p.contracts
           /\ transitions' = IF p.panic THEN <<>> ELSE p.transitions
           /\ calls' = p.calls
           /\ outcome' = IF p.panic THEN "panicked" ELSE "returned"
    /\ evm_state' = batch
    /\ before' = [accounts |-> accounts, contracts |-> contracts,
                  has_state_clear |-> has_state_clear]
    /\ empty_touches' = CountTouches(empty_touches, has_state_clear, batch)
    /\ loader_call' = None
    /\ UNCHANGED <<has_state_clear, inserted, workers, hasher_vars>>

\* Line 118: the returned list is moved to the caller, which goes on.
take_transitions ==
    /\ outcome = "returned"
    /\ UNCHANGED <<accounts, contracts, has_state_clear, empty_touches, inserted>>
    /\ Idle

\* Lines 83, 93, 108, 65: a loader or setter call has returned; the caller goes on.
proceed ==
    /\ outcome = "completed"
    /\ UNCHANGED <<accounts, contracts, has_state_clear, empty_touches, inserted>>
    /\ Idle

Init == \E flag \in BOOLEAN : new(flag)

\* One address with every info and storage.
Next ==
    \/ \E flag \in BOOLEAN : set_state_clear_flag(flag)
    \/ \E a \in OneAddress : insert_not_existing(a)
    \/ \E a \in OneAddress, info \in Infos : insert_account(a, info)
    \/ \E a \in OneAddress, info \in Infos, storage \in PlainStorages :
            insert_account_with_storage(a, info, storage)
    \/ \E batch \in EvmStates(OneAddress, EvmAccounts(Flags, Infos, EvmStorages)) :
            apply_evm_state(batch)
    \/ take_transitions
    \/ proceed

Spec == Init /\ [][Next]_vars

\* Every address, batches over several addresses in every iteration order.
NextBatch ==
    \/ \E flag \in BOOLEAN : set_state_clear_flag(flag)
    \/ \E a \in Addresses : insert_not_existing(a)
    \/ \E a \in Addresses, info \in BatchInfos : insert_account(a, info)
    \/ \E a \in Addresses, info \in BatchInfos, storage \in BatchPlainStorages :
            insert_account_with_storage(a, info, storage)
    \/ \E batch \in EvmStates(Addresses, EvmAccounts(BatchFlags, BatchInfos, BatchStorages)) :
            apply_evm_state(batch)
    \/ take_transitions
    \/ proceed

SpecBatch == Init /\ [][NextBatch]_vars

\* Line 13, and BuildHasherDefault of lines 39 and 41: a fresh hasher for each key.
build_hasher ==
    /\ hasher' = ZeroU64
    /\ hasher_panicked' = FALSE
    /\ written' = None
    /\ writes' = 0
    /\ UNCHANGED <<cache_vars, before, workers>>

\* Lines 19-24
write(bytes) ==
    /\ ~hasher_panicked
    /\ writes < MaxWrites
    /\ written' = Some(bytes)
    /\ writes' = writes + 1
    /\ IF SuffixPanics(bytes)
       THEN hasher_panicked' = TRUE /\ UNCHANGED hasher
       ELSE /\ hasher' = from_be_bytes(Suffix(bytes))
            /\ UNCHANGED hasher_panicked
    /\ UNCHANGED <<cache_vars, before, workers>>

\* The hasher alone, on a cache that stays as constructed.
NextHash ==
    \/ build_hasher
    \/ \E bytes \in HashKeys : write(bytes)

SpecHash == Init /\ [][NextHash]_vars

\* ------------------------------------------------- concurrent application

\* Line 123: apply_account_state takes &self, so threads sharing the cache may
\* be inside it at once.  Two of them are followed, each with one account.
Workers == {"w1", "w2"}

\* A thread inside apply_account_state: where it is, its arguments, the entry it
\* holds through the guard of get_mut, and the Option it returned.
Worker(pc, address, account, this_account, transition) ==
    [pc |-> pc, address |-> address, account |-> account,
     this_account |-> this_account, transition |-> transition]

\* The workers that hold the guard of the entry of `address` (lines 129-182:
\* `this_account` lives until the function returns or unwinds).
Holding(ws, address) ==
    {w \in DOMAIN ws : ws[w].pc \in {"holding", "registered"} /\ ws[w].address = address}

\* Mutant: get_mut hands out the entry while another guard on it is alive.
EntryFree_always(ws, address) == TRUE

\* Lines 129-131: DashMap::get_mut waits until no other guard on the entry is alive.
EntryFree(ws, address) == Holding(ws, address) = {}

\* The infos of the accounts and entries of the concurrent runs.
ConcInfos ==
    {DefaultInfo,
     AccountInfo(0, 1, "h1", Some("c1")),
     AccountInfo(0, 1, "h1", Some("c2"))}
ConcStorages == {EmptyMap, (1 :> EvmSlot(0, 1))}

\* The entries the loader can have made for the address both workers may share.
ConcEntries ==
    {new_loaded_not_existing} \cup {InsertedAccount(info, EmptyMap) : info \in ConcInfos}

\* The part of the cache state that records sequential calls.
call_vars == <<outcome, evm_state, transitions, calls, empty_touches, loader_call>>

\* A loaded cache (lines 54-108) and two threads about to apply one account
\* each, the first to "a1", the second to either address.
InitConc ==
    \E flag \in BOOLEAN, entry \in ConcEntries, address \in Addresses,
       tasks \in [Workers -> EvmAccounts(Flags, ConcInfos, ConcStorages)] :
        /\ accounts = ("a1" :> entry) @@ ("a2" :> new_loaded_not_existing)
        /\ contracts = EmptyMap
        /\ has_state_clear = flag
        /\ inserted = Addresses
        /\ before = [accounts |-> accounts, contracts |-> contracts,
                     has_state_clear |-> has_state_clear]
        /\ outcome = "idle"
        /\ evm_state = <<>>
        /\ transitions = <<>>
        /\ calls = <<>>
        /\ empty_touches = EmptyMap
        /\ loader_call = None
        /\ workers = [w \in Workers |->
                        Worker("start", IF w = "w1" THEN "a1" ELSE address,
                               tasks[w], None, None)]
        /\ hasher_default

\* Lines 125-132: the touch filter, then get_mut(..).expect(..).
fetch(w) ==
    /\ w \in DOMAIN workers
    /\ workers[w].pc = "start"
    /\ LET me == workers[w]
           this_account == FetchEntry(accounts, me.address)
       IN  IF NotTouched(me.account)
           THEN workers' = [workers EXCEPT ![w].pc = "done"]
           ELSE IF this_account = None
           THEN workers' = [workers EXCEPT ![w].pc = "panicked"]
           ELSE /\ EntryFree(workers, me.address)
                /\ workers' = [workers EXCEPT ![w].pc = "holding",
                                              ![w].this_account = this_account]
    /\ UNCHANGED <<cache_vars, before, hasher_vars>>

\* Lines 159-162: the created branch registers the code while the entry is held;
\* entry(..).or_insert_with(..) is one step on the contract store.  A panic
\* unwinds and drops the guard.
register(w) ==
    /\ w \in DOMAIN workers
    /\ workers[w].pc = "holding"
    /\ Branch(workers[w].account, has_state_clear) = "newly_created"
    /\ LET reg == RegisterContract(contracts, workers[w].account.info)
       IN  /\ contracts' = reg.contracts
           /\ workers' = IF reg.panic
                         THEN [workers EXCEPT ![w].pc = "panicked",
                                              ![w].this_account = None]
                         ELSE [workers EXCEPT ![w].pc = "registered"]
    /\ UNCHANGED <<accounts, has_state_clear, inserted, before, call_vars, hasher_vars>>

\* Lines 136-138, 163, 170-180: the lifecycle operation on the held entry and the
\* return, which drops the guard.
operate(w) ==
    /\ w \in DOMAIN workers
    /\ LET me == workers[w]
           branch == Branch(me.account, has_state_clear)
       IN  /\ \/ me.pc = "registered"
              \/ me.pc = "holding" /\ branch # "newly_created"
           /\ LET r == Delegate(branch, Unwrap(me.this_account), me.account,
                                ChangedStorage(me.account.storage))
              IN  /\ accounts' = Insert(accounts, me.address, r.entry)
                  /\ workers' = [workers EXCEPT ![w].pc = "done",
                                                ![w].this_account = None,
                                                ![w].transition = r.transition]
    /\ UNCHANGED <<contracts, has_state_clear, inserted, before, call_vars, hasher_vars>>

NextConc == \E w \in Workers : fetch(w) \/ register(w) \/ operate(w)

SpecConc == InitConc /\ [][NextConc]_vars

\* ------------------------------------------------------------------ claims

\* The last apply_evm_state ran to its end and returned its list.
Returned == outcome = "returned"
\* The last apply_evm_state ran, to its end or into a panic.
Called == outcome \in {"returned", "panicked"}

\* The account the last batch holds for address a.
Item(a) == AccountOf(evm_state, a)
\* Position of address a in the iteration order of the last batch.
Position(a) == CHOOSE i \in DOMAIN evm_state : evm_state[i][1] = a
\* The records the returned list holds for address a.
Records(a) == {transitions[i][2] : i \in {j \in DOMAIN transitions : transitions[j][1] = a}}
RecordCount(a) == Cardinality({j \in DOMAIN transitions : transitions[j][1] = a})
\* The lifecycle operations invoked on the entry of address a, in order.
Invoked(a) == SelectSeq(calls, LAMBDA c : c[1] = a)

\* The entry of address a is what it was when the batch was applied.
EntryUnchanged(a) ==
    /\ a \in DOMAIN accounts <=> a \in DOMAIN before.accounts
    /\ a \in DOMAIN accounts => accounts[a] = before.accounts[a]

\* C1: an account of the batch that is not touched yields no record, has its
\* cache entry left as it was (also absent), has no lifecycle operation
\* invoked; a batch of untouched accounts only returns an empty list, leaves
\* accounts and contract store as they were and does not panic.
C1_TouchFilter ==
    Called =>
        /\ \A a \in Keys(evm_state) :
              ~is_touched(Item(a)) =>
                  /\ RecordCount(a) = 0
                  /\ EntryUnchanged(a)
                  /\ Invoked(a) = <<>>
        /\ (\A a \in Keys(evm_state) : ~is_touched(Item(a))) =>
              /\ outcome = "returned"
              /\ transitions = <<>>
              /\ accounts = before.accounts
              /\ contracts = before.contracts

\* An untouched account with the created and self-destructed flags set, a
\* non-empty info and a changed slot, at an address without entry: no panic.
C1_Witness ==
    /\ Returned
    /\ \E a \in Keys(evm_state) :
          /\ ~is_touched(Item(a)) /\ is_created(Item(a)) /\ is_selfdestructed(Item(a))
          /\ ~is_empty(Item(a))
          /\ ChangedStorage(Item(a).storage) # EmptyMap
          /\ a \notin DOMAIN accounts

\* C2: a batch with a touched account whose address has no cache entry panics:
\* no list is returned, and the address still has no entry afterwards.
C2_MissingEntryPanics ==
    Called =>
        \A a \in Keys(evm_state) :
            is_touched(Item(a)) /\ a \notin DOMAIN before.accounts =>
                /\ outcome = "panicked"
                /\ transitions = <<>>
                /\ a \notin DOMAIN accounts

C2_Witness ==
    /\ outcome = "panicked"
    /\ \E a \in Keys(evm_state) :
          /\ is_touched(Item(a)) /\ ~is_created(Item(a))
          /\ a \notin DOMAIN before.accounts
          /\ a \notin DOMAIN accounts

\* A destroyed or non-existing entry: no materialized account.
DestroyedEntry(entry) ==
    /\ entry.status \in {"Destroyed", "DestroyedAgain", "LoadedNotExisting"}
    /\ entry.account = None

\* C3: a touched, self-destructed account is handed to selfdestruct and to no
\* other operation, whatever its created flag and info; every record for it has
\* no new info and a destroyed status, and its entry ends destroyed or
\* non-existing.
C3_SelfdestructPrecedence ==
    Returned =>
        \A a \in Keys(evm_state) :
            is_touched(Item(a)) /\ is_selfdestructed(Item(a)) =>
                /\ Invoked(a) = <<(<<a, "selfdestruct">>)>>
                /\ \A r \in Records(a) :
                      /\ r.info = None
                      /\ r.status \in {"Destroyed", "DestroyedAgain"}
                /\ DestroyedEntry(accounts[a])

C3_Witness ==
    /\ Returned
    /\ \E a \in Keys(evm_state) :
          /\ is_touched(Item(a)) /\ is_selfdestructed(Item(a))
          /\ is_created(Item(a)) /\ ~is_empty(Item(a))
          /\ RecordCount(a) = 1
          /\ before.accounts[a].account # None

\* Touched, created and self-destructed in the same batch.
CreatedAndDestroyed(account) ==
    is_touched(account) /\ is_created(account) /\ is_selfdestructed(account)

\* Touched, created and not self-destructed: the accounts whose code is registered.
Registers(account) ==
    is_touched(account) /\ is_created(account) /\ ~is_selfdestructed(account)

\* C4 as stated: an account that is touched, created and self-destructed
\* yields exactly one record, which reflects destruction, and its code hash is
\* registered in the contract store after the batch.
C4_AsStated ==
    Returned =>
        \A a \in Keys(evm_state) :
            CreatedAndDestroyed(Item(a)) =>
                /\ RecordCount(a) = 1
                /\ \A r \in Records(a) : r.info = None
                /\ Item(a).info.code_hash \in DOMAIN contracts

\* C4, amended: an account that is touched, created and self-destructed yields
\* one record, which reflects destruction, or none when its entry was
\* LoadedNotExisting; it registers no code: its code hash is in the contract
\* store after the batch exactly when it was there before or a created, not
\* self-destructed account of the batch carries it.
C4_CreatedAndDestroyed ==
    Returned =>
        \A a \in Keys(evm_state) :
            CreatedAndDestroyed(Item(a)) =>
                /\ RecordCount(a) =
                      IF before.accounts[a].status = "LoadedNotExisting" THEN 0 ELSE 1
                /\ \A r \in Records(a) :
                      r.info = None /\ r.status \in {"Destroyed", "DestroyedAgain"}
                /\ DestroyedEntry(accounts[a])
                /\ Item(a).info.code_hash \in DOMAIN contracts <=>
                      \/ Item(a).info.code_hash \in DOMAIN before.contracts
                      \/ \E b \in Keys(evm_state) :
                            /\ Registers(Item(b))
                            /\ Item(b).info.code_hash = Item(a).info.code_hash

\* A created and self-destructed contract whose entry held an account: one
\* record, and its code hash is not in the contract store.
C4_Witness ==
    /\ Returned
    /\ \E a \in Keys(evm_state) :
          /\ CreatedAndDestroyed(Item(a))
          /\ Item(a).info.code # None
          /\ RecordCount(a) = 1
          /\ Item(a).info.code_hash \notin DOMAIN contracts

\* The first account in iteration order that registers code under hash h.
FirstWriter(h) ==
    LET writers == {i \in DOMAIN evm_state :
                        Registers(evm_state[i][2]) /\ evm_state[i][2].info.code_hash = h}
    IN  evm_state[CHOOSE i \in writers : \A j \in writers : i <= j][2]

\* C5: no operation removes or overwrites an entry of the contract store, and
\* a hash registered by a batch holds the bytecode of the first created account
\* of the batch that carries it, whatever later accounts carry.
C5_FirstWriterWins ==
    /\ [][\A h \in DOMAIN contracts :
              h \in DOMAIN contracts' /\ contracts'[h] = contracts[h]]_vars
    /\ [](Called =>
            \A h \in DOMAIN contracts :
                \/ h \in DOMAIN before.contracts /\ contracts[h] = before.contracts[h]
                \/ h \notin DOMAIN before.contracts
                   /\ contracts[h] = Unwrap(FirstWriter(h).info.code))

\* A hash was registered with one bytecode, and a batch in which two addresses
\* are created under it, carrying the other bytecode, leaves it as it was.
C5_Witness ==
    /\ Returned
    /\ \E h \in DOMAIN before.contracts :
          /\ contracts[h] = before.contracts[h]
          /\ \E a, b \in Keys(evm_state) :
                /\ a # b
                /\ Registers(Item(a)) /\ Registers(Item(b))
                /\ Item(a).info.code_hash = h /\ Item(b).info.code_hash = h
                /\ Item(a).info.code # Some(contracts[h])
                /\ Item(b).info.code # Some(contracts[h])

\* C6: the returned list follows the iteration order of the batch: its
\* addresses are touched keys of the batch, each at most once, in increasing
\* position.
C6_RecordOrder ==
    Returned =>
        /\ \A i \in DOMAIN transitions :
              /\ transitions[i][1] \in Keys(evm_state)
              /\ is_touched(Item(transitions[i][1]))
        /\ \A i, j \in DOMAIN transitions :
              i < j => Position(transitions[i][1]) < Position(transitions[j][1])

\* Two records, for a batch that iterates a2 before a1.
C6_Witness ==
    /\ Returned
    /\ Len(transitions) = 2
    /\ evm_state[1][1] = "a2"
    /\ transitions[1][1] = "a2" /\ transitions[2][1] = "a1"

\* Touched, and neither created nor self-destructed.
PlainTouch(account) ==
    is_touched(account) /\ ~is_created(account) /\ ~is_selfdestructed(account)

\* The entry of address a held info when the batch was applied.
HadInfo(a, info) ==
    /\ a \in DOMAIN before.accounts
    /\ before.accounts[a].account # None
    /\ Unwrap(before.accounts[a].account).info = info

\* Touched but unchanged: a non-empty account, neither created nor
\* self-destructed, whose info is the cached info and which changed no slot.
TouchedUnchanged(a) ==
    /\ PlainTouch(Item(a)) /\ ~is_empty(Item(a))
    /\ HadInfo(a, Item(a).info)
    /\ ChangedStorage(Item(a).storage) = EmptyMap

\* C7 as stated: a touched but unchanged account produces no record.
C7_AsStated ==
    Returned =>
        \A a \in Keys(evm_state) : TouchedUnchanged(a) => RecordCount(a) = 0

\* C7, amended: a touched but unchanged account is handed to change and
\* produces exactly one record, whose new info is its previous info and which
\* holds no slot; its entry keeps info and storage.
C7_TouchedUnchangedEmits ==
    Returned =>
        \A a \in Keys(evm_state) :
            TouchedUnchanged(a) =>
                /\ Invoked(a) = <<(<<a, "change">>)>>
                /\ RecordCount(a) = 1
                /\ \A r \in Records(a) :
                      /\ r.info = Some(Item(a).info)
                      /\ r.previous_info = r.info
                      /\ r.storage = EmptyMap
                /\ accounts[a].account = before.accounts[a].account

\* A funded account touched with the same info and an unchanged slot only.
C7_Witness ==
    /\ Returned
    /\ \E a \in Keys(evm_state) :
          /\ TouchedUnchanged(a)
          /\ Item(a).storage # EmptyMap
          /\ RecordCount(a) = 1

\* C8: under state clear, an address that insert_account gave an empty info and
\* that is touched as empty and nothing else yields one record without new
\* info the first time, and no record the second time and every time after.
C8_StateClearIdempotent ==
    Returned =>
        \A a \in Keys(evm_state) \cap DOMAIN empty_touches :
            is_touched(Item(a)) =>
                /\ before.has_state_clear /\ TouchedEmptyOnly(Item(a))
                /\ empty_touches[a] >= 1
                /\ Invoked(a) = <<(<<a, "touch_empty_eip161">>)>>
                /\ empty_touches[a] = 1 =>
                      /\ before.accounts[a] = InsertedAccount(DefaultInfo, EmptyMap)
                      /\ RecordCount(a) = 1
                      /\ \A r \in Records(a) : r.info = None
                /\ empty_touches[a] > 1 => RecordCount(a) = 0
                /\ DestroyedEntry(accounts[a])

\* The touch repeated up to the longest counted run: no record.
C8_Witness ==
    /\ Returned
    /\ \E a \in Keys(evm_state) \cap DOMAIN empty_touches :
          /\ is_touched(Item(a)) /\ empty_touches[a] = MaxRepeat
          /\ transitions = <<>>

\* C9: with state clear disabled, a touched empty account that is neither
\* created nor self-destructed is handed to touch_create_pre_eip161; a record it
\* yields has a new info (the empty one) and exactly the changed slots, and the
\* entry has a materialized account after the batch.
C9_LegacyRetention ==
    Returned /\ ~before.has_state_clear =>
        \A a \in Keys(evm_state) :
            PlainTouch(Item(a)) /\ is_empty(Item(a)) =>
                /\ Invoked(a) = <<(<<a, "touch_create_pre_eip161">>)>>
                /\ RecordCount(a) <= 1
                /\ \A r \in Records(a) :
                      /\ r.info = Some(DefaultInfo)
                      /\ ~r.storage_was_destroyed
                      /\ r.storage = ChangedStorage(Item(a).storage)
                /\ accounts[a].account # None

\* A funded account that became empty and changed a slot: one record.
C9_Witness ==
    /\ Returned /\ ~before.has_state_clear
    /\ \E a \in Keys(evm_state) :
          /\ PlainTouch(Item(a)) /\ is_empty(Item(a))
          /\ before.accounts[a].status = "Loaded"
          /\ ChangedStorage(Item(a).storage) # EmptyMap
          /\ RecordCount(a) = 1
          /\ accounts[a].account # None

\* The slots of an execution-result account whose changed flag is set.
ChangedSlots(account) == {k \in DOMAIN account.storage : is_changed(account.storage[k])}

\* C10: for an entry holding info I, a touched non-empty account that is
\* neither created nor self-destructed yields exactly one record, from I to its
\* info, holding exactly its changed slots with previous and new value; the
\* entry then holds the new info, each changed slot at its new value and every
\* other slot as it was.
C10_GenericChange ==
    Returned =>
        \A a \in Keys(evm_state) :
            /\ PlainTouch(Item(a)) /\ ~is_empty(Item(a))
            /\ before.accounts[a].account # None
            =>  LET old == Unwrap(before.accounts[a].account)
                    cur == Unwrap(accounts[a].account)
                    changed == ChangedSlots(Item(a))
                IN  /\ RecordCount(a) = 1
                    /\ \A r \in Records(a) :
                          /\ r.previous_info = Some(old.info)
                          /\ r.info = Some(Item(a).info)
                          /\ DOMAIN r.storage = changed
                          /\ \A k \in changed :
                                /\ r.storage[k].previous_or_original_value
                                      = Item(a).storage[k].original_value
                                /\ r.storage[k].present_value
                                      = Item(a).storage[k].present_value
                    /\ accounts[a].account # None
                    /\ cur.info = Item(a).info
                    /\ DOMAIN cur.storage = DOMAIN old.storage \cup changed
                    /\ \A k \in DOMAIN cur.storage :
                          cur.storage[k] = IF k \in changed
                                           THEN Item(a).storage[k].present_value
                                           ELSE old.storage[k]

\* Balance and code change, slot 2 changes from 0 to 2, slot 1 is reported
\* unchanged at 1 while the cache holds 5 for it and keeps it.
C10_Witness ==
    /\ Returned
    /\ \E a \in Keys(evm_state) :
          /\ PlainTouch(Item(a)) /\ ~is_empty(Item(a))
          /\ before.accounts[a].account # None
          /\ Unwrap(before.accounts[a].account).info # Item(a).info
          /\ ChangedSlots(Item(a)) = {2}
          /\ DOMAIN Item(a).storage = {1, 2}
          /\ Unwrap(accounts[a].account).storage = (1 :> 5) @@ (2 :> 2)
          /\ RecordCount(a) = 1

\* The loader or setter call that has just completed.
LoaderCall == Unwrap(loader_call)
Loaded(op) == outcome = "completed" /\ loader_call # None /\ LoaderCall[1] = op

\* What C11 says of an entry made from `info` and `storage`.
LoadedAs(entry, info, storage) ==
    /\ entry.status = IF InfoIsEmpty(info) THEN "LoadedEmptyEIP161" ELSE "Loaded"
    /\ entry.account # None
    /\ Unwrap(entry.account).storage = storage
    /\ ~InfoIsEmpty(info) => Unwrap(entry.account).info = info

\* C11: insert_not_existing leaves the entry of its address LoadedNotExisting with
\* no account; insert_account and insert_account_with_storage leave it Loaded when
\* the info is non-empty and LoadedEmptyEIP161 when it is empty, holding an account
\* with the given storage (empty for insert_account).
C11_LoaderStatus ==
    /\ Loaded("insert_not_existing") =>
            accounts[LoaderCall[2]] = [status |-> "LoadedNotExisting", account |-> None]
    /\ Loaded("insert_account") =>
            LoadedAs(accounts[LoaderCall[2]], LoaderCall[3], EmptyMap)
    /\ Loaded("insert_account_with_storage") =>
            LoadedAs(accounts[LoaderCall[2]], LoaderCall[3], LoaderCall[4])

\* An empty info was inserted with a storage over an entry the batch had changed.
C11_Witness ==
    /\ Loaded("insert_account_with_storage")
    /\ InfoIsEmpty(LoaderCall[3])
    /\ LoaderCall[4] # EmptyMap
    /\ LoaderCall[2] \in DOMAIN before.accounts
    /\ before.accounts[LoaderCall[2]].status = "InMemoryChange"
    /\ accounts[LoaderCall[2]].status = "LoadedEmptyEIP161"

\* C12: the addresses with an entry are exactly those the loader inserted:
\* apply_evm_state neither adds nor removes an entry; a self-destructed address
\* keeps its entry, with a destroyed status.
C12_EntriesNeverRemoved ==
    /\ DOMAIN accounts = inserted
    /\ Called => DOMAIN accounts = DOMAIN before.accounts
    /\ Returned =>
            \A a \in Keys(evm_state) :
                is_touched(Item(a)) /\ is_selfdestructed(Item(a)) =>
                    a \in DOMAIN accounts /\ DestroyedEntry(accounts[a])

\* One address was destroyed by an earlier batch and is recreated by this one,
\* the other address was never inserted.
C12_Witness ==
    /\ Returned
    /\ inserted = {"a1"}
    /\ "a1" \in Keys(evm_state)
    /\ Registers(Item("a1"))
    /\ before.accounts["a1"].status = "Destroyed"
    /\ accounts["a1"].account # None

\* Byte j of a u64, byte 0 the least significant.
U64Byte(v, j) ==
    LET word == v[4 - (j \div 2)]
    IN  IF j % 2 = 0 THEN word % 256 ELSE word \div 256

\* The bytes of the last write into the hasher.
Written == Unwrap(written)

\* C13: a fresh hasher finishes with zero; after writes of at least eight bytes
\* each, finish is the big-endian u64 of the last eight bytes of the most recent
\* write, whatever was written before; a write of fewer than eight bytes panics.
C13_SuffixHash ==
    /\ written = None => finish = ZeroU64 /\ ~hasher_panicked
    /\ written # None => (hasher_panicked <=> Len(Written) < 8)
    /\ written # None /\ ~hasher_panicked =>
            \A j \in 0..7 : U64Byte(finish, j) = Written[Len(Written) - j]

\* A second write of nine bytes replaced the hash of the first: its last eight
\* bytes, not its first eight, make the value.
C13_Witness ==
    /\ writes = 2
    /\ ~hasher_panicked
    /\ Written = <<255, 0, 0, 0, 0, 0, 0, 0, 255>>
    /\ finish = <<0, 0, 0, 255>>

\* The operation C14 assigns to a touched account: the first of self-destruct,
\* created, empty, generic change whose condition holds.
Precedence(account, state_clear) ==
    CASE is_selfdestructed(account) -> "selfdestruct"
      [] ~is_selfdestructed(account) /\ is_created(account) -> "newly_created"
      [] PlainTouch(account) /\ is_empty(account) /\ state_clear -> "touch_empty_eip161"
      [] PlainTouch(account) /\ is_empty(account) /\ ~state_clear ->
            "touch_create_pre_eip161"
      [] PlainTouch(account) /\ ~is_empty(account) -> "change"

\* C14: each touched account with an entry is handed to exactly one lifecycle
\* operation, chosen in the order self-destruct, created, empty (by the flag),
\* generic change; the contract store changes only when the created branch ran.
C14_BranchPrecedence ==
    Returned =>
        /\ \A a \in Keys(evm_state) :
              is_touched(Item(a)) =>
                  Invoked(a) = <<(<<a, Precedence(Item(a), before.has_state_clear)>>)>>
        /\ contracts # before.contracts =>
              \E a \in Keys(evm_state) : Invoked(a) = <<(<<a, "newly_created">>)>>

\* A created account with an empty info went to newly_created, which registered
\* its code.
C14_Witness ==
    /\ Returned
    /\ \E a \in Keys(evm_state) :
          /\ Registers(Item(a)) /\ is_empty(Item(a))
          /\ Invoked(a) = <<(<<a, "newly_created">>)>>
          /\ contracts # before.contracts

\* The entry of address a held exactly this info and storage when the batch
\* was applied.
HadAccount(a, info, storage) ==
    /\ HadInfo(a, info)
    /\ Unwrap(before.accounts[a].account).storage = storage

\* C15: a touched, not self-destructed account that is created, or that is
\* neither created nor empty, yields exactly one record, also when the resulting
\* account state equals the prior one.
C15_AlwaysEmits ==
    Returned =>
        \A a \in Keys(evm_state) :
            /\ is_touched(Item(a)) /\ ~is_selfdestructed(Item(a))
            /\ is_created(Item(a)) \/ ~is_empty(Item(a))
            => RecordCount(a) = 1

\* A created account whose info and (empty) storage are what the entry already
\* held still yields its record.
C15_Witness ==
    /\ Returned
    /\ \E a \in Keys(evm_state) :
          /\ Registers(Item(a))
          /\ HadAccount(a, Item(a).info, EmptyMap)
          /\ Item(a).storage = EmptyMap
          /\ accounts[a].account = before.accounts[a].account
          /\ RecordCount(a) = 1

\* Every touched address of the last batch had an entry when it was applied.
EntriesPresent ==
    \A a \in Keys(evm_state) : is_touched(Item(a)) => a \in DOMAIN before.accounts

\* C16: when every touched address has an entry, apply_evm_state runs to its end
\* for every combination of flags and every info, also for a created account
\* with no inlined bytecode, whether or not its code hash is in the contract
\* store.
C16_AsStated == Called /\ EntriesPresent => outcome = "returned"

\* The statuses that denote an existing account.
ExistingStatuses ==
    {"Loaded", "LoadedEmptyEIP161", "InMemoryChange", "Changed", "DestroyedChanged"}

\* C17: in every reachable state an entry holds an account exactly when its
\* status denotes an existing account, and none when the status is
\* LoadedNotExisting or a destroyed one.
C17_StatusAccountConsistency ==
    \A a \in DOMAIN accounts :
        /\ accounts[a].account # None <=> accounts[a].status \in ExistingStatuses
        /\ accounts[a].status \in {"LoadedNotExisting", "Destroyed", "DestroyedAgain"}
              => accounts[a].account = None

\* An entry destroyed twice, holding no account, was created again and holds one.
C17_Witness ==
    /\ Returned
    /\ \E a \in Keys(evm_state) \cap DOMAIN before.accounts :
          /\ before.accounts[a].status = "DestroyedAgain"
          /\ before.accounts[a].account = None
          /\ accounts[a].status = "DestroyedChanged"
          /\ accounts[a].account # None

\* C18: a touched, not self-destructed, not created, empty account goes to
\* touch_empty_eip161 exactly when has_state_clear is true as the batch is
\* applied, else to touch_create_pre_eip161; the flag changes only in a call of
\* set_state_clear_flag, to the value given, and that call changes no account
\* entry and no contract store entry.
C18_FlagReadAtDecision ==
    /\ [][has_state_clear' # has_state_clear =>
              /\ outcome' = "completed"
              /\ loader_call' = Some(<<"set_state_clear_flag", has_state_clear'>>)]_vars
    /\ [](Loaded("set_state_clear_flag") =>
              /\ has_state_clear = LoaderCall[2]
              /\ accounts = before.accounts
              /\ contracts = before.contracts)
    /\ [](Returned =>
              /\ has_state_clear = before.has_state_clear
              /\ \A a \in Keys(evm_state) :
                    PlainTouch(Item(a)) /\ is_empty(Item(a)) =>
                        Invoked(a) = <<(<<a, IF has_state_clear THEN "touch_empty_eip161"
                                             ELSE "touch_create_pre_eip161">>)>>)

\* An entry holding an empty account changed in memory was touched as empty
\* while the flag was set, and was cleared.
C18_Witness ==
    /\ Returned
    /\ has_state_clear
    /\ \E a \in Keys(evm_state) \cap DOMAIN before.accounts :
          /\ PlainTouch(Item(a)) /\ is_empty(Item(a))
          /\ before.accounts[a].status = "InMemoryChange"
          /\ HadInfo(a, DefaultInfo)
          /\ Invoked(a) = <<(<<a, "touch_empty_eip161">>)>>
          /\ accounts[a].account = None

\* Address a is a touched key of the last batch.
TouchedKey(a) == a \in Keys(evm_state) /\ is_touched(Item(a))

\* C19: a completed apply_evm_state leaves the entry of every address that is
\* not a touched key of the batch as it was, leaves the flag as it was, keeps
\* every contract store entry, and adds one only under the code hash of a
\* touched, created, not self-destructed account of the batch.
C19_PerAddressIndependence ==
    Returned =>
        /\ \A a \in Addresses : ~TouchedKey(a) => EntryUnchanged(a)
        /\ has_state_clear = before.has_state_clear
        /\ \A h \in DOMAIN before.contracts :
              h \in DOMAIN contracts /\ contracts[h] = before.contracts[h]
        /\ \A h \in DOMAIN contracts \ DOMAIN before.contracts :
              \E a \in Keys(evm_state) :
                  Registers(Item(a)) /\ Item(a).info.code_hash = h

\* Both addresses have an entry and are keys of the batch; the touched one
\* changed its entry and registered its code, the untouched one kept its entry.
C19_Witness ==
    /\ Returned
    /\ DOMAIN before.accounts = {"a1", "a2"}
    /\ Keys(evm_state) = {"a1", "a2"}
    /\ Registers(Item("a1"))
    /\ ~is_touched(Item("a2"))
    /\ accounts["a1"] # before.accounts["a1"]
    /\ accounts["a2"] = before.accounts["a2"]
    /\ DOMAIN contracts # DOMAIN before.contracts

\* Both workers have left apply_account_state, by return or by panic.
Finished == DOMAIN workers = Workers /\ \A w \in Workers : workers[w].pc \in {"done", "panicked"}

\* The cache and what each worker got.
Run(accs, ctrs, results) == [accounts |-> accs, contracts |-> ctrs, results |-> results]

ConcurrentRun ==
    Run(accounts, contracts,
        [w \in Workers |-> <<workers[w].transition, workers[w].pc = "panicked">>])

\* The two calls made one after the other, `first` before `second`, on the
\* cache the workers started on.
SequentialRun(first, second) ==
    LET one == apply_account_state(before.accounts, before.contracts, before.has_state_clear,
                                   workers[first].address, workers[first].account)
        two == apply_account_state(one.accounts, one.contracts, before.has_state_clear,
                                   workers[second].address, workers[second].account)
    IN  Run(two.accounts, two.contracts,
            (first :> <<one.transition, one.panic>>) @@ (second :> <<two.transition, two.panic>>))

\* C20: at most one worker holds an entry at a time, and when both workers have
\* left apply_account_state the entries, the contract store and the two returned
\* records are those of one of the two sequential orders of the calls.
C20_PerKeyAtomicity ==
    /\ \A a \in Addresses : Cardinality(Holding(workers, a)) <= 1
    /\ Finished =>
            \/ ConcurrentRun = SequentialRun("w1", "w2")
            \/ ConcurrentRun = SequentialRun("w2", "w1")

\* Both workers applied to the same address and both returned a record, and the
\* two sequential orders differ, so the order of the two updates shows.
C20_Witness ==
    /\ Finished
    /\ workers["w1"].address = workers["w2"].address
    /\ \A w \in Workers : workers[w].pc = "done" /\ workers[w].transition # None
    /\ SequentialRun("w1", "w2") # SequentialRun("w2", "w1")

====
